---- MODULE Spec2Model ----
(***************************************************************************)
(* Block scoring (src/catapult/chain/BlockScorer.cpp) and notification     *)
(* dispatch (src/catapult/local/NotificationObserverAdapter.cpp).          *)
(*                                                                         *)
(* TLC's integers are 32 bits wide, so every uint32_t / uint64_t /         *)
(* uint128_t / BlockTarget value of the program is held as a natural       *)
(* number written in base 2^8: a sequence of bytes, least significant      *)
(* first, without high zero bytes (<<>> is 0).  A Hash256 is the sequence  *)
(* of its 32 bytes in memory order; C++ index i is TLA+ index i + 1.       *)
(***************************************************************************)
EXTENDS Integers, Sequences, FiniteSets, TLC

----------------------------------------------------------------------------
(* Natural numbers in base 2^8 *)

Base == 2^8

Digit(a, i) == IF i <= Len(a) THEN a[i] ELSE 0

RECURSIVE Norm(_)
Norm(a) ==
    IF a = <<>> THEN <<>>
    ELSE IF a[Len(a)] = 0 THEN Norm(SubSeq(a, 1, Len(a) - 1))
    ELSE a

RECURSIVE FromNat(_)
FromNat(n) == IF n = 0 THEN <<>> ELSE <<n % Base>> \o FromNat(n \div Base)

RECURSIVE ToNat(_)
ToNat(a) == IF a = <<>> THEN 0 ELSE a[1] + Base * ToNat(Tail(a))

RECURSIVE AddFrom(_, _, _, _)
AddFrom(a, b, i, c) ==
    IF i > Len(a) /\ i > Len(b)
    THEN (IF c = 0 THEN <<>> ELSE <<c>>)
    ELSE LET s == Digit(a, i) + Digit(b, i) + c
         IN  <<s % Base>> \o AddFrom(a, b, i + 1, s \div Base)

Add(a, b) == AddFrom(a, b, 1, 0)

RECURSIVE SubFrom(_, _, _, _)
SubFrom(a, b, i, borrow) ==
    IF i > Len(a) THEN <<>>
    ELSE LET d == a[i] - Digit(b, i) - borrow
         IN  <<(d + Base) % Base>> \o SubFrom(a, b, i + 1, IF d < 0 THEN 1 ELSE 0)

\* a - b for a >= b
Sub(a, b) == Norm(SubFrom(a, b, 1, 0))

RECURSIVE CmpFrom(_, _, _)
CmpFrom(a, b, i) ==
    IF i = 0 THEN 0
    ELSE IF a[i] < b[i] THEN -1
    ELSE IF a[i] > b[i] THEN 1
    ELSE CmpFrom(a, b, i - 1)

\* -1, 0, 1 as a < b, a = b, a > b
Cmp(a, b) ==
    IF Len(a) < Len(b) THEN -1
    ELSE IF Len(a) > Len(b) THEN 1
    ELSE CmpFrom(a, b, Len(a))

Less(a, b) == Cmp(a, b) < 0
LessEq(a, b) == Cmp(a, b) <= 0

RECURSIVE MulSmallFrom(_, _, _, _)
MulSmallFrom(a, d, i, c) ==
    IF i > Len(a)
    THEN (IF c = 0 THEN <<>> ELSE <<c>>)
    ELSE LET p == a[i] * d + c
         IN  <<p % Base>> \o MulSmallFrom(a, d, i + 1, p \div Base)

\* a * d for a digit d
MulSmall(a, d) == IF d = 0 THEN <<>> ELSE MulSmallFrom(a, d, 1, 0)

\* a * 2^8
ShiftByte(a) == IF a = <<>> THEN <<>> ELSE <<0>> \o a

\* Loops carry their state in a record, so that every round is evaluated
\* before the next one starts.
RECURSIVE MulLoop(_, _, _)
MulLoop(a, b, st) ==
    IF st.j = 0 THEN st.acc
    ELSE MulLoop(a, b, [j |-> st.j - 1,
                        acc |-> Add(MulSmall(a, b[st.j]), ShiftByte(st.acc))])

Mul(a, b) ==
    IF a = <<>> \/ b = <<>> THEN <<>>
    ELSE IF Len(a) >= Len(b) THEN MulLoop(a, b, [j |-> Len(b), acc |-> <<>>])
    ELSE MulLoop(b, a, [j |-> Len(a), acc |-> <<>>])

RECURSIVE QuotDigit(_, _, _)
\* the largest digit q >= st.d with b * q <= r, trying st.d + st.bit, then half the bit
QuotDigit(r, b, st) ==
    IF st.bit = 0 THEN st.d
    ELSE QuotDigit(r, b, [d |-> IF LessEq(MulSmall(b, st.d + st.bit), r)
                                THEN st.d + st.bit ELSE st.d,
                          bit |-> st.bit \div 2])

RECURSIVE DivLoop(_, _, _)
\* long division, most significant byte first
DivLoop(a, b, st) ==
    IF st.i = 0 THEN st
    ELSE LET r1 == Norm(<<a[st.i]>> \o st.r)
             d == IF Less(r1, b) THEN 0
                  ELSE QuotDigit(r1, b, [d |-> 0, bit |-> Base \div 2])
         IN  DivLoop(a, b, [i |-> st.i - 1,
                            q |-> <<d>> \o st.q,
                            r |-> Sub(r1, MulSmall(b, d))])

\* truncating division a / b, for b > 0
Div(a, b) == Norm(DivLoop(a, b, [i |-> Len(a), q |-> <<>>, r |-> <<>>]).q)

\* a mod 2^(8 * nBytes): the value an unsigned type of nBytes bytes keeps
Trunc(a, nBytes) == IF Len(a) <= nBytes THEN a ELSE Norm(SubSeq(a, 1, nBytes))

\* a mod 2^k
TruncBits(a, k) ==
    Norm([i \in 1..((k + 7) \div 8) |->
            IF i <= k \div 8 THEN Digit(a, i) ELSE Digit(a, i) % 2^(k % 8)])

\* a * 2^k
Shl(a, k) ==
    LET whole == [i \in 1..(k \div 8) |-> 0]
        part == MulSmall(a, 2^(k % 8))
    IN  IF part = <<>> THEN <<>> ELSE whole \o part

\* the number of bits of a (0 for 0)
RECURSIVE BitsOfDigit(_)
BitsOfDigit(d) == IF d = 0 THEN 0 ELSE 1 + BitsOfDigit(d \div 2)

BitLen(a) == IF a = <<>> THEN 0 ELSE 8 * (Len(a) - 1) + BitsOfDigit(a[Len(a)])

\* a number written as decimal groups of three digits, most significant first
RECURSIVE FromGroups(_, _)
FromGroups(groups, acc) ==
    IF groups = <<>> THEN acc
    ELSE FromGroups(Tail(groups), Add(Mul(acc, FromNat(1000)), FromNat(Head(groups))))

Dec(groups) == FromGroups(groups, <<>>)

\* 2^k
Pow2(k) == Shl(<<1>>, k)

----------------------------------------------------------------------------
(* Widths of the program's integer types, in bytes *)

U32 == 4
U64 == 8
U128 == 16

Hash256_Size == 32

MaxU32 == [i \in 1..U32 |-> Base - 1]
MaxU64 == [i \in 1..U64 |-> Base - 1]

\* a - b in an unsigned type of nBytes bytes
SubWrap(a, b, nBytes) ==
    IF LessEq(b, a) THEN Sub(a, b)
    ELSE Sub(Pow2(8 * nBytes), Sub(b, a))

\* the nBytes bytes of a, least significant first, high zero bytes included
Pad(a, nBytes) == [i \in 1..nBytes |-> Digit(a, i)]

Reverse(q) == [i \in 1..Len(q) |-> q[Len(q) + 1 - i]]

----------------------------------------------------------------------------
(* utils/IntegerMath.h, as BlockScorer.cpp uses it *)

\* utils::Log2 of a nonzero value: the index of its highest set bit
Log2(a) == BitLen(a) - 1

\* the upper 4 bytes of an 8-byte value: value >> 32
UpperHalf(sq) == Norm(SubSeq(Pad(sq, U64), U32 + 1, U64))

RECURSIVE Log2Loop(_)
\* one round squares the 32-bit mantissa x in [2^31, 2^32) and doubles the
\* result, adding 1 when the square reaches 2^63
Log2Loop(st) ==
    IF st.i = 0 THEN st.result
    ELSE LET sq == Mul(st.x, st.x)
             carry == BitLen(sq) = 64
         IN  Log2Loop([i |-> st.i - 1,
                       x |-> IF carry THEN UpperHalf(sq)
                             ELSE UpperHalf(MulSmall(sq, 2)),
                       result |-> IF carry
                                  THEN Add(MulSmall(st.result, 2), <<1>>)
                                  ELSE MulSmall(st.result, 2)])

\* utils::Log2TimesPowerOfTwo: floor-style approximation of log2(value) * 2^n
\* for a nonzero 32-bit value, in integer arithmetic only
Log2TimesPowerOfTwo(value, n) ==
    Log2Loop([i |-> n,
              x |-> Shl(value, 31 - Log2(value)),
              result |-> FromNat(Log2(value))])

----------------------------------------------------------------------------
(* BlockScorer.cpp: generation hash to hit *)

Two_To_54 == Pow2(54)

\* the byte at C++ index i of the memory that starts with the hash; the bytes
\* behind the hash are not the hash's (the model reads them as 0)
MemByte(hash, i) == IF i < Hash256_Size THEN hash[i + 1] ELSE 0

RECURSIVE FirstNonzeroFrom(_, _)
\* the loop of NumLeadingZeros: the first index i with hash[i] # 0, or Hash256_Size
FirstNonzeroFrom(hash, i) ==
    IF i >= Hash256_Size THEN Hash256_Size
    ELSE IF hash[i + 1] # 0 THEN i
    ELSE FirstNonzeroFrom(hash, i + 1)

NumLeadingZeros(hash) ==
    LET i == FirstNonzeroFrom(hash, 0)
    IN  IF i < Hash256_Size
        THEN 8 * i + 7 - Log2(<<hash[i + 1]>>)
        ELSE 256

\* __builtin_bswap32
BSWAP(val) == Norm(Reverse(Pad(val, U32)))

\* the uint32_t a little-endian host loads from hash.data() + index
LoadU32(hash, index) == Norm([k \in 1..U32 |-> MemByte(hash, index + k - 1)])

ExtractFromHashAtPosition(hash, index) == BSWAP(LoadU32(hash, index))

\* SpliceWindow without line 68
SpliceWindow_ShiftOnly(value, remainder, nextByte) ==
    Trunc(Shl(value, remainder), U32)

\* lines 67-68: value <<= remainder; value += nextByte >> (8 - remainder)
SpliceWindow(value, remainder, nextByte) ==
    Trunc(Add(Trunc(Shl(value, remainder), U32),
              FromNat(nextByte \div 2^(8 - remainder))), U32)

ExtractGenerationHashInfo(generationHash) ==
    LET numLeadingZeros == NumLeadingZeros(generationHash)
        quotient == numLeadingZeros \div 8
        remainder == numLeadingZeros % 8
        value == ExtractFromHashAtPosition(generationHash, quotient)
    IN  IF 224 <= numLeadingZeros
        THEN [Value |-> ExtractFromHashAtPosition(generationHash, Hash256_Size - 4),
              NumLeadingZeros |-> 224]
        ELSE [Value |-> SpliceWindow(value, remainder,
                                     MemByte(generationHash, quotient + 4)),
              NumLeadingZeros |-> numLeadingZeros]

\* the C++ indices ExtractGenerationHashInfo reads
ExtractGenerationHashInfoReads(generationHash) ==
    LET i == FirstNonzeroFrom(generationHash, 0)
        numLeadingZeros == NumLeadingZeros(generationHash)
        quotient == numLeadingZeros \div 8
        scanned == 0..(IF i < Hash256_Size THEN i ELSE Hash256_Size - 1)
    IN  IF 224 <= numLeadingZeros
        THEN scanned \cup ((Hash256_Size - 4)..(Hash256_Size - 1))
        ELSE scanned \cup (quotient..(quotient + 3)) \cup {quotient + 4}

Log2E_Numerator == Dec(<<10, 000, 000, 000, 000, 000>>)
Log2E_Denominator == Dec(<<14, 426, 950, 408, 889, 634>>)

\* EdgeCaseHit without the case of the window 0xFFFFFFFF
EdgeCaseHit_ZeroOnly(value) ==
    IF value = <<>> THEN [edge |-> TRUE, hit |-> MaxU64]
    ELSE [edge |-> FALSE]

\* lines 82-86: whether the window is an edge case, and its hit if it is
EdgeCaseHit(value) ==
    IF value = <<>> THEN [edge |-> TRUE, hit |-> MaxU64]
    ELSE IF value = MaxU32 THEN [edge |-> TRUE, hit |-> <<>>]
    ELSE [edge |-> FALSE]

\* LogDifference adding logValue
LogDifference_Sum(numLeadingZeros, logValue) ==
    Trunc(Add(Mul(FromNat(32 + numLeadingZeros), Two_To_54), logValue), U64)

\* line 92, in uint64_t: (32 + NumLeadingZeros) * Two_To_54 - logValue
LogDifference(numLeadingZeros, logValue) ==
    SubWrap(Trunc(Mul(FromNat(32 + numLeadingZeros), Two_To_54), U64), logValue, U64)

\* CalculateHit with its locals: the values before each narrowing (product,
\* scaled, quotient) beside the values the program keeps
CalculateHitLocals(generationHash) ==
    LET hashInfo == ExtractGenerationHashInfo(generationHash)
        logValue == Log2TimesPowerOfTwo(hashInfo.Value, 54)
        product == Mul(FromNat(32 + hashInfo.NumLeadingZeros), Two_To_54)
        result == LogDifference(hashInfo.NumLeadingZeros, logValue)
        scaled == Mul(result, Log2E_Numerator)
        quotient == Div(Trunc(scaled, U128), Log2E_Denominator)
    IN  IF EdgeCaseHit(hashInfo.Value).edge
        THEN [hashInfo |-> hashInfo, edge |-> TRUE,
              hit |-> EdgeCaseHit(hashInfo.Value).hit]
        ELSE [hashInfo |-> hashInfo, edge |-> FALSE, logValue |-> logValue,
              product |-> product, result |-> result, scaled |-> scaled,
              quotient |-> quotient, hit |-> Trunc(quotient, U64)]

CalculateHit(generationHash) == CalculateHitLocals(generationHash).hit

----------------------------------------------------------------------------
(* BlockScorer.cpp: score and target *)

\* BlockTarget (BlockScorer.h): 128-bit unsigned, in bytes
BlockTargetSize == 16

Ms_In_S == FromNat(1000)

\* utils::TimeSpan holds milliseconds; seconds() is the whole seconds in it
Seconds(timeSpan) == Div(timeSpan, Ms_In_S)

\* utils::TimeSpan::FromDifference(start, end), in uint64_t milliseconds
FromDifference(start, end) == SubWrap(start, end, U64)

TimeBetweenBlocks(parent, block) == FromDifference(block.Timestamp, parent.Timestamp)

CalculateScore(parentBlock, currentBlock) ==
    IF LessEq(currentBlock.Timestamp, parentBlock.Timestamp)
    THEN <<>>
    ELSE SubWrap(currentBlock.Difficulty,
                 Seconds(TimeBetweenBlocks(parentBlock, currentBlock)), U64)

\* static_cast<uint64_t>(Two_To_54 * min(exp(3.0 * (t - 15) / 15.0), 100.0)) in
\* IEEE-754 doubles for t = 0 .. 38 seconds; from 39 seconds on the minimum is 100
SmootherTable ==
    << Dec(<<896, 884, 90, 197, 525>>),
       Dec(<<1, 95, 456, 701, 517, 232>>),
       Dec(<<1, 337, 993, 836, 678, 189>>),
       Dec(<<1, 634, 229, 362, 520, 49>>),
       Dec(<<1, 996, 52, 250, 848, 323>>),
       Dec(<<2, 437, 983, 724, 617, 958>>),
       Dec(<<2, 977, 760, 45, 597, 977>>),
       Dec(<<3, 637, 44, 332, 832, 522>>),
       Dec(<<4, 442, 295, 979, 672, 458>>),
       Dec(<<5, 425, 832, 562, 135, 775>>),
       Dec(<<6, 627, 126, 856, 707, 896>>),
       Dec(<<8, 94, 391, 21, 460, 360>>),
       Dec(<<9, 886, 511, 519, 238, 598>>),
       Dec(<<12, 75, 412, 438, 180, 316>>),
       Dec(<<14, 748, 942, 57, 915, 58>>),
       Dec(<<18, 14, 398, 509, 481, 984>>),
       Dec(<<22, 2, 836, 26, 77, 748>>),
       Dec(<<26, 874, 324, 609, 597, 312>>),
       Dec(<<32, 824, 374, 201, 853, 884>>),
       Dec(<<40, 91, 781, 185, 25, 864>>),
       Dec(<<48, 968, 212, 118, 944, 584>>),
       Dec(<<59, 809, 909, 344, 251, 168>>),
       Dec(<<73, 51, 988, 238, 378, 96>>),
       Dec(<<89, 225, 899, 923, 439, 296>>),
       Dec(<<108, 980, 760, 265, 812, 48>>),
       Dec(<<133, 109, 401, 175, 55, 72>>),
       Dec(<<162, 580, 189, 732, 260, 832>>),
       Dec(<<198, 575, 892, 161, 187, 72>>),
       Dec(<<242, 541, 142, 389, 790, 368>>),
       Dec(<<296, 240, 420, 282, 208, 384>>),
       Dec(<<361, 828, 866, 411, 217, 280>>),
       Dec(<<441, 938, 775, 416, 628, 480>>),
       Dec(<<539, 785, 239, 231, 797, 760>>),
       Dec(<<659, 295, 180, 11, 864, 960>>),
       Dec(<<805, 264, 951, 308, 197, 376>>),
       Dec(<<983, 552, 832, 577, 547, 264>>),
       Dec(<<1, 201, 314, 142, 506, 464, 256>>),
       Dec(<<1, 467, 288, 407, 74, 214, 912>>),
       Dec(<<1, 792, 150, 107, 416, 887, 40>>) >>

\* static_cast<uint64_t>(Two_To_54 * smoother) of GetMultiplier, lines 110-117,
\* for the smoothing factors 0 and 3000 at a target time of 15 s
ScaledSmoother(timeDiff, config) ==
    LET targetTime == Seconds(config.BlockGenerationTargetTime)
        delta == SubWrap(timeDiff, targetTime, U64)
        negative == BitLen(delta) = 64
    IN  IF config.BlockTimeSmoothingFactor = 0 THEN Two_To_54
        ELSE IF negative /\ Less(timeDiff, targetTime)
             THEN SmootherTable[ToNat(timeDiff) + 1]
        ELSE IF negative THEN <<>>
        ELSE IF Less(timeDiff, FromNat(Len(SmootherTable)))
             THEN SmootherTable[ToNat(timeDiff) + 1]
        ELSE MulSmall(Two_To_54, 100)

GetMultiplier(timeDiff, config) ==
    Trunc(Shl(ScaledSmoother(timeDiff, config), 10), BlockTargetSize)

Original_Total_Chain_Importance == Dec(<<8, 999, 999, 998>>)

\* target *= factor, in BlockTarget
MultiplyTarget(target, factor) == Trunc(Mul(target, factor), BlockTargetSize)

\* ScaleByImportance without the multiplication
ScaleByImportance_Dropped(target, signerImportance) == target

\* line 129: target *= signerImportance.unwrap()
ScaleByImportance(target, signerImportance) == MultiplyTarget(target, signerImportance)

\* CalculateTarget(timeSpan, ...) with its running values: the product before
\* each narrowing to BlockTarget (exact) beside the value the program keeps
CalculateTargetLocals(timeSpan, difficulty, signerImportance, config) ==
    LET t0 == Seconds(timeSpan)
        t1 == ScaleByImportance(t0, signerImportance)
        multiplier == GetMultiplier(Seconds(timeSpan), config)
        t2 == MultiplyTarget(t1, multiplier)
        t3 == MultiplyTarget(t2, Original_Total_Chain_Importance)
        t4 == Div(t3, config.TotalChainImportance)
    IN  [exact |-> <<Mul(t0, signerImportance), Mul(t1, multiplier),
                     Mul(t2, Original_Total_Chain_Importance)>>,
         product |-> Mul(Mul(Mul(t0, signerImportance), multiplier),
                         Original_Total_Chain_Importance),
         target |-> Div(t4, difficulty)]

CalculateTarget(timeSpan, difficulty, signerImportance, config) ==
    CalculateTargetLocals(timeSpan, difficulty, signerImportance, config).target

\* the overload of lines 137-147
CalculateTargetBlocks(parentBlock, currentBlock, signerImportance, config) ==
    IF LessEq(currentBlock.Timestamp, parentBlock.Timestamp)
    THEN <<>>
    ELSE CalculateTarget(TimeBetweenBlocks(parentBlock, currentBlock),
                         currentBlock.Difficulty, signerImportance, config)

\* HitBelowTarget with <= for <
HitBelowTarget_Inclusive(hit, target) == LessEq(hit, target)

\* lines 158 and 165: hit < target
HitBelowTarget(hit, target) == Less(hit, target)

\* BlockHitPredicate::operator()(parentBlock, block, generationHash); importance
\* is what m_importanceLookup answers for the block's signer and height
BlockHitPredicate(config, importance, parentBlock, block, generationHash) ==
    HitBelowTarget(CalculateHit(generationHash),
                   CalculateTargetBlocks(parentBlock, block, importance, config))

\* BlockHitPredicate::operator()(context)
BlockHitPredicateContext(config, importance, context) ==
    HitBelowTarget(CalculateHit(context.GenerationHash),
                   CalculateTarget(context.ElapsedTime, context.Difficulty,
                                   importance, config))

----------------------------------------------------------------------------
(* NotificationObserverAdapter.cpp *)

\* model::NotificationChannel bits
Channel_Validator == 1
Channel_Observer == 2

\* IsSet(notification.Type, channel): the type carries the channel's bit
IsSet(type, channel) == (type \div channel) % 2 = 1

----------------------------------------------------------------------------
(* State *)

VARIABLES
    \* one NotificationObserverAdapter::notify call
    pc,             \* "idle", "publishing", "returned" or "failed"; "off" when unused
    entity,         \* the notifications the publisher decomposes the entity into
    next,           \* the position of the notification the publisher emits next
    throwsOn,       \* the positions of the notifications the observer fails on
    observed,       \* the notifications m_observer.notify was called with, in order
    \* two CalculateHit calls
    pcHit,          \* the call that runs next: 1, 2, or 3 when both are done
    genHash,        \* the generation hash of each call
    hitLocals,      \* the locals and the result of each finished call
    hitReads,       \* the hash indices each finished call read
    \* two CalculateTarget calls
    pcTarget,       \* the call that runs next
    targetIn,       \* the arguments of each call
    targetLocals,   \* the running values and the result of each finished call
    \* BlockHitPredicate and CalculateScore on one pair of blocks
    pcBlocks,       \* "predicate", "context", "score" or "done"; "off" when unused
    blocksIn,       \* the blocks, the hash, the configuration and the importance
    blocksOut       \* the results so far

dispatchVars == <<pc, entity, next, throwsOn, observed>>
hitVars == <<pcHit, genHash, hitLocals, hitReads>>
targetVars == <<pcTarget, targetIn, targetLocals>>
blocksVars == <<pcBlocks, blocksIn, blocksOut>>
vars == <<dispatchVars, hitVars, targetVars, blocksVars>>

DispatchOff == pc = "off" /\ entity = <<>> /\ next = 0 /\ throwsOn = {} /\ observed = <<>>
HitOff == pcHit = 0 /\ genHash = <<>> /\ hitLocals = <<>> /\ hitReads = <<>>
TargetOff == pcTarget = 0 /\ targetIn = <<>> /\ targetLocals = <<>>
BlocksOff == pcBlocks = "off" /\ blocksIn = <<>> /\ blocksOut = <<>>

----------------------------------------------------------------------------
(* Notification dispatch *)

MaxNotifications == 3

\* the notification types of the model: every combination of the two channel bits
NotificationTypes == 0..(Channel_Validator + Channel_Observer)

Entities == UNION {[1..n -> NotificationTypes] : n \in 0..MaxNotifications}

\* NotificationObserverAdapter::notify, lines 42-44: the subscriber is built and
\* publish starts; the entity and the observer's behaviour are the call's inputs
AdapterNotify ==
    /\ pc = "idle"
    /\ \E e \in Entities :
         \E t \in SUBSET (1..Len(e)) :
            /\ entity' = e
            /\ throwsOn' = t
    /\ next' = 1
    /\ observed' = <<>>
    /\ pc' = "publishing"
    /\ UNCHANGED <<hitVars, targetVars, blocksVars>>

\* SubscriberNotify testing the Validator bit in place of the Observer bit
SubscriberNotify_WrongChannel(i) ==
    IF ~IsSet(entity[i], Channel_Validator)
    THEN UNCHANGED <<observed, pc>>
    ELSE /\ observed' = Append(observed, [position |-> i, type |-> entity[i]])
         /\ pc' = IF i \in throwsOn THEN "failed" ELSE pc

\* SubscriberNotify catching the observer's failure
SubscriberNotify_Swallowing(i) ==
    IF ~IsSet(entity[i], Channel_Observer)
    THEN UNCHANGED <<observed, pc>>
    ELSE /\ observed' = Append(observed, [position |-> i, type |-> entity[i]])
         /\ pc' = pc

\* ObservingNotificationSubscriber::notify, lines 18-23, for the notification at
\* position i of the entity: a notification without the Observer bit returns at
\* once; any other is handed to m_observer.notify, whose failure leaves notify
\* and publish as an exception
SubscriberNotify(i) ==
    IF ~IsSet(entity[i], Channel_Observer)
    THEN UNCHANGED <<observed, pc>>
    ELSE /\ observed' = Append(observed, [position |-> i, type |-> entity[i]])
         /\ pc' = IF i \in throwsOn THEN "failed" ELSE pc

\* the publisher emits its next notification to the subscriber
PublisherEmit ==
    /\ pc = "publishing"
    /\ next <= Len(entity)
    /\ SubscriberNotify(next)
    /\ next' = next + 1
    /\ UNCHANGED <<entity, throwsOn, hitVars, targetVars, blocksVars>>

\* publish returns, and with it NotificationObserverAdapter::notify
PublishReturns ==
    /\ pc = "publishing"
    /\ next > Len(entity)
    /\ pc' = "returned"
    /\ UNCHANGED <<entity, next, throwsOn, observed, hitVars, targetVars, blocksVars>>

Init ==
    /\ pc = "idle" /\ entity = <<>> /\ next = 0 /\ throwsOn = {} /\ observed = <<>>
    /\ HitOff /\ TargetOff /\ BlocksOff

Next == AdapterNotify \/ PublisherEmit \/ PublishReturns

Spec == Init /\ [][Next]_vars

----------------------------------------------------------------------------
(* CalculateHit on two generation hashes *)

\* windows, in the byte order of the hash
WindowChoices ==
    << <<255, 255, 255, 255>>, <<128, 0, 0, 0>>, <<255, 255, 255, 254>>,
       <<0, 0, 0, 0>>, <<128, 0, 0, 1>>, <<0, 0, 0, 1>>, <<192, 0, 0, 0>>,
       <<127, 255, 255, 255>>, <<64, 0, 0, 2>> >>
NumWindows == 6

\* the number of hash bits behind the window
ShiftChoices == <<224, 217, 0, 220, 100, 223, 3>>
NumShifts == 4

\* the byte that fills the bits behind the window
FillChoices == <<0, 255, 170, 1>>
NumFills == 2

\* the hash whose bits are: zeros, the window, then 'shift' bits of the fill
MakeHash(shift, window, fill) ==
    LET filler == TruncBits([i \in 1..Hash256_Size |-> fill], shift)
        number == Add(Shl(Norm(Reverse(window)), shift), filler)
    IN  Reverse(Pad(number, Hash256_Size))

InitHit ==
    /\ pcHit = 1
    /\ \E s \in 1..NumShifts, f \in 1..NumFills :
         \E w1 \in 1..NumWindows, w2 \in 1..NumWindows :
            /\ w1 <= w2
            /\ genHash = << MakeHash(ShiftChoices[s], WindowChoices[w1], FillChoices[f]),
                         MakeHash(ShiftChoices[s], WindowChoices[w2], FillChoices[f]) >>
    /\ hitLocals = <<>>
    /\ hitReads = <<>>
    /\ DispatchOff /\ TargetOff /\ BlocksOff

\* CalculateHit(genHash[k]), lines 73-97
CalculateHitCall(k) ==
    /\ pcHit = k
    /\ hitLocals' = Append(hitLocals, CalculateHitLocals(genHash[k]))
    /\ hitReads' = Append(hitReads, ExtractGenerationHashInfoReads(genHash[k]))
    /\ pcHit' = k + 1
    /\ UNCHANGED <<genHash, dispatchVars, targetVars, blocksVars>>

NextHit == CalculateHitCall(1) \/ CalculateHitCall(2)

SpecHit == InitHit /\ [][NextHit]_vars

----------------------------------------------------------------------------
(* CalculateTarget on two argument lists that share elapsed time and configuration *)

\* BlockGenerationTargetTime in ms, BlockTimeSmoothingFactor, TotalChainImportance
ConfigChoices ==
    << [BlockGenerationTargetTime |-> Dec(<<15, 000>>),
        BlockTimeSmoothingFactor |-> 3000,
        TotalChainImportance |-> Dec(<<8, 999, 999, 998, 000, 000>>)],
       [BlockGenerationTargetTime |-> Dec(<<15, 000>>),
        BlockTimeSmoothingFactor |-> 0,
        TotalChainImportance |-> Dec(<<8, 999, 999, 998>>)],
       [BlockGenerationTargetTime |-> Dec(<<15, 000>>),
        BlockTimeSmoothingFactor |-> 3000,
        TotalChainImportance |-> <<1>>] >>
NumConfigs == 2

\* elapsed times in ms
ElapsedChoices == << Dec(<<15, 000>>), Dec(<<1, 999>>), Dec(<<60, 000>>), <<>>, MaxU64 >>
NumElapsed == 3

ImportanceChoices ==
    << <<>>, Dec(<<100, 000, 000>>), Dec(<<200, 000, 000>>), MaxU64, <<1>>,
       Dec(<<9, 000, 000, 000, 000, 000>>) >>
NumImportances == 4

DifficultyChoices == << Dec(<<100, 000, 000, 000, 000>>), <<1>>, MaxU64, <<10>> >>
NumDifficulties == 2

InitTarget ==
    /\ pcTarget = 1
    /\ \E e \in 1..NumElapsed, c \in 1..NumConfigs :
         \E i1 \in 1..NumImportances, i2 \in 1..NumImportances :
            \E d1 \in 1..NumDifficulties, d2 \in 1..NumDifficulties :
               targetIn = [timeSpan |-> ElapsedChoices[e],
                           config |-> ConfigChoices[c],
                           importance |-> <<ImportanceChoices[i1], ImportanceChoices[i2]>>,
                           difficulty |-> <<DifficultyChoices[d1], DifficultyChoices[d2]>>]
    /\ targetLocals = <<>>
    /\ DispatchOff /\ HitOff /\ BlocksOff

\* CalculateTarget(timeSpan, difficulty[k], importance[k], config), lines 123-135
CalculateTargetCall(k) ==
    /\ pcTarget = k
    /\ targetLocals' = Append(targetLocals,
                              CalculateTargetLocals(targetIn.timeSpan,
                                                    targetIn.difficulty[k],
                                                    targetIn.importance[k],
                                                    targetIn.config))
    /\ pcTarget' = k + 1
    /\ UNCHANGED <<targetIn, dispatchVars, hitVars, blocksVars>>

NextTarget == CalculateTargetCall(1) \/ CalculateTargetCall(2)

SpecTarget == InitTarget /\ [][NextTarget]_vars

----------------------------------------------------------------------------
(* BlockHitPredicate, both overloads, and CalculateScore on one pair of blocks *)

\* block timestamps in ms
TimestampChoices == << Dec(<<15, 000>>), <<>>, Dec(<<17, 500>>), MaxU64, Dec(<<75, 000>>) >>
NumTimestamps == 3

BlockDifficultyChoices == << Dec(<<100, 000, 000, 000, 000>>), <<1>>, MaxU64, <<10>> >>
NumBlockDifficulties == 2

\* what the importance lookup answers for the block's signer
LookupChoices == << <<>>, Dec(<<9, 000, 000, 000, 000, 000>>), <<1>>, MaxU64 >>
NumLookups == 2

\* the elapsed time of the context overload, in ms
ContextElapsedChoices == << Dec(<<15, 000>>), Dec(<<999>>) >>

\* a hash whose hit is 0, the all-zero hash, and two ordinary hashes
PredicateHashes ==
    << MakeHash(224, <<255, 255, 255, 255>>, 0), MakeHash(0, <<0, 0, 0, 0>>, 0),
       MakeHash(224, <<128, 0, 0, 0>>, 0), MakeHash(100, <<192, 0, 0, 0>>, 255) >>
NumPredicateHashes == 2

InitBlocks ==
    /\ pcBlocks = "predicate"
    /\ \E p \in 1..NumTimestamps, b \in 1..NumTimestamps,
          e \in 1..Len(ContextElapsedChoices) :
         \E d \in 1..NumBlockDifficulties, l \in 1..NumLookups :
            \E c \in 1..NumConfigs, h \in 1..NumPredicateHashes :
               blocksIn = [parent |-> [Timestamp |-> TimestampChoices[p]],
                           block |-> [Timestamp |-> TimestampChoices[b],
                                      Difficulty |-> BlockDifficultyChoices[d]],
                           elapsed |-> ContextElapsedChoices[e],
                           importance |-> LookupChoices[l],
                           config |-> ConfigChoices[c],
                           hash |-> PredicateHashes[h]]
    /\ blocksOut = <<>>
    /\ DispatchOff /\ HitOff /\ TargetOff

\* BlockHitPredicate::operator()(parentBlock, block, generationHash), lines 154-159
BlockHitPredicateCall ==
    /\ pcBlocks = "predicate"
    /\ blocksOut' = Append(blocksOut,
                           BlockHitPredicate(blocksIn.config, blocksIn.importance,
                                             blocksIn.parent, blocksIn.block,
                                             blocksIn.hash))
    /\ pcBlocks' = "context"
    /\ UNCHANGED <<blocksIn, dispatchVars, hitVars, targetVars>>

\* BlockHitPredicate::operator()(context), lines 161-166, the context holding the
\* block's difficulty and hash and an elapsed time of its own
BlockHitPredicateContextCall ==
    /\ pcBlocks = "context"
    /\ blocksOut' = Append(blocksOut,
                           BlockHitPredicateContext(
                               blocksIn.config, blocksIn.importance,
                               [ElapsedTime |-> blocksIn.elapsed,
                                Difficulty |-> blocksIn.block.Difficulty,
                                GenerationHash |-> blocksIn.hash]))
    /\ pcBlocks' = "score"
    /\ UNCHANGED <<blocksIn, dispatchVars, hitVars, targetVars>>

\* CalculateScore(parentBlock, block), lines 99-106
CalculateScoreCall ==
    /\ pcBlocks = "score"
    /\ blocksOut' = Append(blocksOut, CalculateScore(blocksIn.parent, blocksIn.block))
    /\ pcBlocks' = "done"
    /\ UNCHANGED <<blocksIn, dispatchVars, hitVars, targetVars>>

NextBlocks == BlockHitPredicateCall \/ BlockHitPredicateContextCall \/ CalculateScoreCall

SpecBlocks == InitBlocks /\ [][NextBlocks]_vars

----------------------------------------------------------------------------
(* Properties of notification dispatch, under Spec *)

\* the notifications the publisher has emitted so far, in its order
Emitted == [i \in 1..(next - 1) |-> [position |-> i, type |-> entity[i]]]

HasObserverBit(n) == n.type \in {Channel_Observer, Channel_Observer + Channel_Validator}

\* C1: at every point of a notify call the observer has been called with exactly
\* the emitted notifications that carry the Observer bit, in the publisher's
\* order and once each: nothing is reordered, repeated, held back or let
\* through without the bit.
C1_ObserverSeesObserverChannelInOrder ==
    pc \in {"publishing", "returned", "failed"}
        => observed = SelectSeq(Emitted, HasObserverBit)

\* the publisher's [N1(Validator), N2(Observer), N3(Observer|Validator)] has been
\* published and the observer saw [N2, N3]
C1_Witness ==
    /\ pc = "returned"
    /\ entity = <<Channel_Validator, Channel_Observer, Channel_Observer + Channel_Validator>>
    /\ observed = << [position |-> 2, type |-> Channel_Observer],
                     [position |-> 3, type |-> Channel_Observer + Channel_Validator] >>

\* C2: a notification the observer failed on is the last one the observer was
\* ever called with (nothing after it is delivered, and it is not tried again),
\* and the notify call has ended in a failure.
C2_FailureStopsDispatch ==
    \A k \in 1..Len(observed) :
        observed[k].position \in throwsOn => (k = Len(observed) /\ pc = "failed")

\* the observer failed on N2 of [N1(Validator), N2(Observer), N3(Observer|Validator)]
C2_Witness ==
    /\ pc = "failed"
    /\ entity = <<Channel_Validator, Channel_Observer, Channel_Observer + Channel_Validator>>
    /\ throwsOn = {2}
    /\ observed = << [position |-> 2, type |-> Channel_Observer] >>

----------------------------------------------------------------------------
(* Properties of the hit calculation, under SpecHit *)

\* bit p of the hash, bit 0 being the highest bit of the first byte
HashBit(h, p) == (h[(p \div 8) + 1] \div 2^(7 - (p % 8))) % 2

\* the position of the first nonzero bit, 256 for the all-zero hash
FirstSetBit(h) ==
    IF \A i \in 1..Len(h) : h[i] = 0 THEN 256
    ELSE LET byte == CHOOSE i \in 1..Len(h) : h[i] # 0 /\ \A j \in 1..(i - 1) : h[j] = 0
         IN  CHOOSE p \in (8 * (byte - 1))..(8 * byte - 1) :
                HashBit(h, p) = 1 /\ \A q \in (8 * (byte - 1))..(p - 1) : HashBit(h, q) = 0

\* the 8 hash bits from position 'from' on, as a number
BitsAsByte(h, from) ==
    HashBit(h, from) * 128 + HashBit(h, from + 1) * 64 + HashBit(h, from + 2) * 32
    + HashBit(h, from + 3) * 16 + HashBit(h, from + 4) * 8 + HashBit(h, from + 5) * 4
    + HashBit(h, from + 6) * 2 + HashBit(h, from + 7)

\* the 32 hash bits from position n on, as a big-endian number
WindowAt(h, n) == Norm([k \in 1..4 |-> BitsAsByte(h, n + 8 * (4 - k))])

ZeroHash == [i \in 1..Hash256_Size |-> 0]

\* C5: the hit of the all-zero hash is 2^64 - 1, and the hit of a hash whose
\* window is 0xFFFFFFFF is 0, wherever the window starts and whatever follows it.
C5_EdgeHits ==
    \A k \in 1..Len(hitLocals) :
        LET h == genHash[k]
            n == IF FirstSetBit(h) < 224 THEN FirstSetBit(h) ELSE 224
        IN  /\ h = ZeroHash => hitLocals[k].hit = MaxU64
            /\ WindowAt(h, n) = MaxU32 => hitLocals[k].hit = <<>>

\* a window of ones behind 7 zero bits got hit 0, the all-zero hash got 2^64 - 1
C5_Witness ==
    /\ Len(hitLocals) = 2
    /\ FirstSetBit(genHash[1]) = 7
    /\ WindowAt(genHash[1], 7) = MaxU32
    /\ hitLocals[1].hit = <<>>
    /\ genHash[2] = ZeroHash
    /\ hitLocals[2].hit = MaxU64

\* a window of ones got hit 0 with ones behind it as well
C5_WitnessOnesBehind ==
    \E k \in 1..Len(hitLocals) :
        /\ FirstSetBit(genHash[k]) = 7
        /\ genHash[k][Hash256_Size] = Base - 1
        /\ hitLocals[k].hit = <<>>

\* hashes a and b start with a nonzero byte, have the same number of leading
\* zero bits, and the window of a is below the window of b
C6_Comparable(a, b) ==
    /\ Len(hitLocals) = 2
    /\ genHash[a][1] # 0
    /\ genHash[b][1] # 0
    /\ FirstSetBit(genHash[a]) = FirstSetBit(genHash[b])
    /\ Less(WindowAt(genHash[a], FirstSetBit(genHash[a])),
            WindowAt(genHash[b], FirstSetBit(genHash[b])))

\* C6: of two hashes with no leading zero byte and equally many leading zero
\* bits, the one with the strictly smaller window has the strictly greater hit.
C6_HitDecreasesWithWindow ==
    \A a, b \in 1..2 :
        C6_Comparable(a, b) => Less(hitLocals[b].hit, hitLocals[a].hit)

\* the step from window 0xFFFFFFFE to window 0xFFFFFFFF, whose hit is 0
C6_Witness ==
    \E a, b \in 1..2 :
        /\ C6_Comparable(a, b)
        /\ WindowAt(genHash[a], FirstSetBit(genHash[a])) = <<254, 255, 255, 255>>
        /\ WindowAt(genHash[b], FirstSetBit(genHash[b])) = MaxU32
        /\ hitLocals[b].hit = <<>>
        /\ hitLocals[a].hit # <<>>

\* C10: the extraction reads hash bytes 0..31 only; with the first nonzero bit
\* at n < 224 it returns the 32 bits from n on (top bit 1) and the count n; with
\* n >= 224 it returns the last 4 bytes and the count 224; the window is 0 for
\* the all-zero hash alone.
C10_WindowExtraction ==
    \A k \in 1..Len(hitLocals) :
        LET h == genHash[k]
            n == FirstSetBit(h)
            info == hitLocals[k].hashInfo
        IN  /\ hitReads[k] \subseteq 0..(Hash256_Size - 1)
            /\ n < 224 => /\ info.Value = WindowAt(h, n)
                          /\ info.NumLeadingZeros = n
                          /\ BitLen(info.Value) = 32
            /\ n >= 224 => /\ info.Value = WindowAt(h, 224)
                           /\ info.NumLeadingZeros = 224
            /\ info.Value = <<>> <=> h = ZeroHash

\* a window that starts inside a byte (n = 7) was spliced from five bytes, and
\* the all-zero hash (n = 256) got its last 4 bytes and the count 224
C10_Witness ==
    /\ Len(hitLocals) = 2
    /\ FirstSetBit(genHash[2]) = 7
    /\ hitLocals[2].hashInfo = [Value |-> <<1, 0, 0, 128>>, NumLeadingZeros |-> 7]
    /\ genHash[1] = ZeroHash
    /\ hitLocals[1].hashInfo = [Value |-> <<>>, NumLeadingZeros |-> 224]

\* a hash whose first nonzero bit lies in the last 4 bytes (n = 255) was read
\* directly, with the count 224
C10_WitnessLastBytes ==
    \E k \in 1..Len(hitLocals) :
        /\ FirstSetBit(genHash[k]) = 255
        /\ hitLocals[k].hashInfo = [Value |-> <<1>>, NumLeadingZeros |-> 224]

\* the hit half of C8: line 92 neither wraps nor goes negative in uint64_t, the
\* scaled value fits uint128_t and the quotient fits uint64_t
HitArithmeticInRange ==
    \A k \in 1..Len(hitLocals) :
        ~hitLocals[k].edge =>
            /\ BitLen(hitLocals[k].product) <= 8 * U64
            /\ LessEq(hitLocals[k].logValue, hitLocals[k].product)
            /\ BitLen(hitLocals[k].scaled) <= 8 * U128
            /\ BitLen(hitLocals[k].quotient) <= 8 * U64

----------------------------------------------------------------------------
(* Properties of the target calculation, under SpecTarget *)

\* C7: with elapsed time and configuration fixed, the target does not fall
\* when only the importance grows and does not rise when only the difficulty
\* grows.
C7_TargetMonotone ==
    Len(targetLocals) = 2 =>
        /\ (targetIn.difficulty[1] = targetIn.difficulty[2]
            /\ LessEq(targetIn.importance[1], targetIn.importance[2]))
                => LessEq(targetLocals[1].target, targetLocals[2].target)
        /\ (targetIn.importance[1] = targetIn.importance[2]
            /\ LessEq(targetIn.difficulty[1], targetIn.difficulty[2]))
                => LessEq(targetLocals[2].target, targetLocals[1].target)

\* the difficulty half of C7 alone
C7_TargetFallsWithDifficulty ==
    (/\ Len(targetLocals) = 2
     /\ targetIn.importance[1] = targetIn.importance[2]
     /\ LessEq(targetIn.difficulty[1], targetIn.difficulty[2]))
        => LessEq(targetLocals[2].target, targetLocals[1].target)

\* C8: no multiplication of CalculateTarget leaves BlockTarget's width: the
\* product seconds * importance * multiplier * 8'999'999'998, and every step
\* towards it, fits BlockTarget.
C8_TargetProductFits ==
    \A k \in 1..Len(targetLocals) :
        /\ BitLen(targetLocals[k].product) <= 8 * BlockTargetSize
        /\ \A j \in 1..3 : BitLen(targetLocals[k].exact[j]) <= 8 * BlockTargetSize

----------------------------------------------------------------------------
(* Properties of the predicate and the score, under SpecBlocks *)

\* C3: the predicate on blocks is false whenever the block's timestamp is not
\* after its parent's, whatever the hash, importance, difficulty and configuration.
C3_NoHitWithoutElapsedTime ==
    (Len(blocksOut) >= 1
     /\ LessEq(blocksIn.block.Timestamp, blocksIn.parent.Timestamp))
        => blocksOut[1] = FALSE

\* a block no later than its parent, a signer with importance and a hash whose
\* hit is 0: rejected
C3_Witness ==
    /\ Len(blocksOut) >= 1
    /\ LessEq(blocksIn.block.Timestamp, blocksIn.parent.Timestamp)
    /\ blocksIn.importance # <<>>
    /\ WindowAt(blocksIn.hash, 0) = MaxU32
    /\ blocksOut[1] = FALSE

\* C4: with importance 0 both overloads of the predicate are false.
C4_NoHitWithoutImportance ==
    blocksIn.importance = <<>> =>
        /\ (Len(blocksOut) >= 1 => blocksOut[1] = FALSE)
        /\ (Len(blocksOut) >= 2 => blocksOut[2] = FALSE)

\* importance 0, time elapsed on both overloads and a hash whose hit is 0:
\* both overloads rejected
C4_Witness ==
    /\ Len(blocksOut) >= 2
    /\ blocksIn.importance = <<>>
    /\ Less(blocksIn.parent.Timestamp, blocksIn.block.Timestamp)
    /\ Seconds(blocksIn.elapsed) # <<>>
    /\ WindowAt(blocksIn.hash, 0) = MaxU32
    /\ blocksOut[1] = FALSE
    /\ blocksOut[2] = FALSE

\* C9: the score is 0 when the block is not after its parent, and otherwise
\* the difficulty minus the whole seconds between the blocks, never above the
\* difficulty.
C9_ScoreIsDifference ==
    Len(blocksOut) = 3 =>
        IF LessEq(blocksIn.block.Timestamp, blocksIn.parent.Timestamp)
        THEN blocksOut[3] = <<>>
        ELSE /\ LessEq(blocksOut[3], blocksIn.block.Difficulty)
             /\ Add(blocksOut[3],
                    Seconds(Sub(blocksIn.block.Timestamp, blocksIn.parent.Timestamp)))
                = blocksIn.block.Difficulty

\* the first half of C9 alone
C9_ScoreZeroWithoutElapsedTime ==
    (Len(blocksOut) = 3
     /\ LessEq(blocksIn.block.Timestamp, blocksIn.parent.Timestamp))
        => blocksOut[3] = <<>>

====
